---- MODULE Spec2Model ----
(***************************************************************************)
(* The bounded multi-producer single-consumer channel of                   *)
(* src/channels/mpsc.rs.                                                   *)
(*                                                                         *)
(* Sender::poll_send and Receiver::poll_recv are not atomic: each is a     *)
(* short sequence of operations on the shared state (a liveness read, one  *)
(* push or pop of the ArrayQueue, one notify or subscribe), and any number *)
(* of Sender handles and the Receiver may run on different threads.  Each  *)
(* shared-state operation is one action of the model, and a call's         *)
(* position between two of them is part of the state (tx_pc, rx_pc).       *)
(*                                                                         *)
(* The shared-state container (crate::sync: shared, SenderShared,          *)
(* ReceiverShared) is not part of the source at hand; its operations       *)
(* (is_closed, notify_*, subscribe_*, clone, drop) are modelled from the   *)
(* specification's description of the Shared Channel State.                *)
(***************************************************************************)
EXTENDS Integers, Sequences, FiniteSets

\* ---------------------------------------------------------------- bounds
\* Largest capacity passed to channel().
MaxCapacity == 2
\* Number of Sender handles that can ever exist (the original and its clones).
MaxSenders == 2
\* Number of distinct items the producers ever create.
MaxItems == 3

Senders == 1..MaxSenders
Items == 1..MaxItems

\* No wake handle registered (Option::None); no item.
NoWaker == 0
NoItem == 0
\* The wake handle of the consumer task.
RxWaker == 1

VARIABLES
    capacity,               \* the argument of channel()
    queue,                  \* StateExtension::queue, head first
    sender_count,           \* live Sender handles, kept by the shared state
    receiver_alive,         \* FALSE once the Receiver is dropped
    pending_sender_waker,   \* wake slot the producers subscribe to (0: empty)
    pending_receiver_waker, \* wake slot the consumer subscribes to (0: empty)
    handle,                 \* handle[s]: "unborn", "alive" or "dropped"
    tx_pc,                  \* position of Sender s inside poll_send
    tx_value,               \* the `value` / `v` the call of Sender s still owns
    tx_arg,                 \* the item passed to the running poll_send
    tx_res,                 \* result of the last poll_send of Sender s
    tx_ret,                 \* item carried by that result (Pending/Rejected)
    rx_pc,                  \* position of the Receiver inside poll_recv
    rx_value,               \* the `v` popped by the running poll_recv
    rx_res,                 \* result of the last poll_recv
    next_item,              \* the next fresh item a producer will create
    accepted,               \* items in the order their pushes took effect
    delivered,              \* items in the order poll_recv returned them
    tx_wakes,               \* tx_wakes[s]: invocations of the wake handle that
                            \* Sender s's task registered last, since then
    rx_wakes                \* the same for the consumer's wake handle

vars == <<capacity, queue, sender_count, receiver_alive, pending_sender_waker,
          pending_receiver_waker, handle, tx_pc, tx_value, tx_arg, tx_res,
          tx_ret, rx_pc, rx_value, rx_res, next_item, accepted,
          delivered, tx_wakes, rx_wakes>>

shared_vars == <<queue, sender_count, receiver_alive, pending_sender_waker,
                 pending_receiver_waker>>
ghost_vars == <<accepted, delivered>>
tx_vars == <<tx_pc, tx_value, tx_arg, tx_res, tx_ret>>
rx_vars == <<rx_pc, rx_value, rx_res>>

\* ------------------------------------------------- the bounded buffer
\* ArrayQueue::push: Ok(()) when there is room, Err(value) when full.
push_ok(q, cap) == Len(q) < cap
push(q, v) == Append(q, v)
\* ArrayQueue::pop: Some(head) or None.
pop_some(q) == Len(q) > 0

\* ------------------------------------------- the shared channel state
\* SenderShared::is_closed: the consumer handle is gone.
sender_is_closed == ~receiver_alive
\* ReceiverShared::is_closed: no producer handle is left.
receiver_is_closed == sender_count = 0

\* notify_receivers: wake the registered consumer wake handle, if any, and
\* clear the slot.
notify_receivers ==
    /\ rx_wakes' = IF pending_receiver_waker # NoWaker THEN rx_wakes + 1 ELSE rx_wakes
    /\ pending_receiver_waker' = NoWaker

\* notify_senders: wake the registered producer wake handle, if any, and
\* clear the slot.
notify_senders ==
    /\ tx_wakes' = IF pending_sender_waker # NoWaker
                   THEN [tx_wakes EXCEPT ![pending_sender_waker] = @ + 1]
                   ELSE tx_wakes
    /\ pending_sender_waker' = NoWaker

\* Register a producer's wake handle, overwriting the slot.  The handle is
\* a fresh one: it has not been invoked yet.
subscribe_recv(w) ==
    /\ pending_sender_waker' = w
    /\ tx_wakes' = [tx_wakes EXCEPT ![w] = 0]
\* Register the consumer's wake handle, overwriting the slot.
subscribe_send(w) ==
    /\ pending_receiver_waker' = w
    /\ rx_wakes' = 0

\* --------------------------------------------------------------- Init
\* ArrayQueue::new(capacity) panics when the capacity is zero.
new_accepts_zero(cap) == FALSE

new_panics(cap) == cap = 0

\* channel(capacity): one Sender, one Receiver, an empty queue.  When
\* StateExtension::new panics, channel() returns nothing: no shared state, no
\* Sender and no Receiver exist, and nothing can be called.
Init ==
    /\ capacity \in 0..MaxCapacity
    /\ queue = <<>>
    /\ sender_count = IF new_panics(capacity) THEN 0 ELSE 1
    /\ receiver_alive = ~new_panics(capacity)
    /\ pending_sender_waker = NoWaker
    /\ pending_receiver_waker = NoWaker
    /\ handle = [s \in Senders |->
                   IF s = 1 /\ ~new_panics(capacity) THEN "alive" ELSE "unborn"]
    /\ tx_pc = [s \in Senders |-> "idle"]
    /\ tx_value = [s \in Senders |-> NoItem]
    /\ tx_arg = [s \in Senders |-> NoItem]
    /\ tx_res = [s \in Senders |-> "none"]
    /\ tx_ret = [s \in Senders |-> NoItem]
    /\ rx_pc = "idle"
    /\ rx_value = NoItem
    /\ rx_res = "none"
    /\ next_item = 1
    /\ accepted = <<>>
    /\ delivered = <<>>
    /\ tx_wakes = [s \in Senders |-> 0]
    /\ rx_wakes = 0

\* ------------------------------------------------------ Sender::clone
\* clone that does not need a live Sender: a dropped handle is cloned too.
clone_of_dropped(s) ==
    /\ handle[s] # "unborn"
    /\ tx_pc[s] = "idle"
    /\ \E t \in Senders :
        /\ handle[t] = "unborn"
        /\ \A u \in Senders : u < t => handle[u] # "unborn"
        /\ handle' = [handle EXCEPT ![t] = "alive"]
    /\ sender_count' = sender_count + 1
    /\ UNCHANGED <<capacity, queue, receiver_alive, pending_sender_waker,
                   pending_receiver_waker, next_item, tx_wakes, rx_wakes>>
    /\ UNCHANGED <<tx_vars, rx_vars, ghost_vars>>

\* clone that copies the handle without counting the new Sender.
clone_uncounted(s) ==
    /\ handle[s] = "alive"
    /\ tx_pc[s] = "idle"
    /\ \E t \in Senders :
        /\ handle[t] = "unborn"
        /\ \A u \in Senders : u < t => handle[u] # "unborn"
        /\ handle' = [handle EXCEPT ![t] = "alive"]
    /\ UNCHANGED <<capacity, queue, sender_count, receiver_alive,
                   pending_sender_waker, pending_receiver_waker, next_item,
                   tx_wakes, rx_wakes>>
    /\ UNCHANGED <<tx_vars, rx_vars, ghost_vars>>

\* A live handle s is cloned into the next handle that does not exist yet.
clone(s) ==
    /\ handle[s] = "alive"
    /\ tx_pc[s] = "idle"
    /\ \E t \in Senders :
        /\ handle[t] = "unborn"
        /\ \A u \in Senders : u < t => handle[u] # "unborn"
        /\ handle' = [handle EXCEPT ![t] = "alive"]
    /\ sender_count' = sender_count + 1
    /\ UNCHANGED <<capacity, queue, receiver_alive, pending_sender_waker,
                   pending_receiver_waker, next_item, tx_wakes, rx_wakes>>
    /\ UNCHANGED <<tx_vars, rx_vars, ghost_vars>>

\* Drop of a Sender: sender_count goes down by one; the drop of the last
\* Sender notifies the consumer, so that a consumer blocked on an empty buffer
\* sees the closed channel.  Once the Receiver is dropped there is no
\* consumer left to notify and the drop invokes no wake handle:
\* tests::send_recv and tests::wake_sender end with a poll_recv that returns
\* Pending under a wake handle that panics when invoked, and then drop the
\* Receiver and the Sender.
drop_sender(s) ==
    /\ handle[s] = "alive"
    /\ tx_pc[s] = "idle"
    /\ handle' = [handle EXCEPT ![s] = "dropped"]
    /\ sender_count' = sender_count - 1
    /\ IF sender_count - 1 = 0 /\ receiver_alive
       THEN notify_receivers
       ELSE UNCHANGED <<pending_receiver_waker, rx_wakes>>
    /\ UNCHANGED <<capacity, queue, receiver_alive, pending_sender_waker,
                   next_item, tx_wakes>>
    /\ UNCHANGED <<tx_vars, rx_vars, ghost_vars>>

\* Drop of the Receiver: receiver_alive becomes false and nothing else
\* changes.  No wake handle is invoked: the producers are not notified
\* (tests::send_blocks drops the Receiver while a producer's panicking wake
\* handle is registered), and the consumer's own handle, if registered, is
\* left to the slot, where no drop of a Sender reaches it any more.  The
\* queue belongs to the shared state and keeps its items.
drop_receiver ==
    /\ receiver_alive
    /\ rx_pc = "idle"
    /\ receiver_alive' = FALSE
    /\ UNCHANGED <<capacity, queue, sender_count, pending_sender_waker,
                   pending_receiver_waker, handle, next_item,
                   tx_wakes, rx_wakes>>
    /\ UNCHANGED <<tx_vars, rx_vars, ghost_vars>>

\* -------------------------------------------------- Sender::poll_send
\* The call and its first statement: `if self.shared.is_closed()`.
\* The caller passes the item its last call handed back (a retry), or a
\* fresh item when it holds none.
poll_send_arg(s) == IF tx_ret[s] # NoItem THEN tx_ret[s] ELSE next_item

\* poll_send_begin that registers the caller's wake handle before it
\* returns Rejected.
poll_send_begin_rejected_subscribes(s) ==
    /\ handle[s] = "alive"
    /\ tx_pc[s] = "idle"
    /\ poll_send_arg(s) \in Items
    /\ next_item' = IF tx_ret[s] # NoItem THEN next_item ELSE next_item + 1
    /\ IF sender_is_closed
       THEN /\ subscribe_recv(s)
            /\ tx_res' = [tx_res EXCEPT ![s] = "Rejected"]
            /\ tx_ret' = [tx_ret EXCEPT ![s] = poll_send_arg(s)]
            /\ UNCHANGED <<tx_pc, tx_value, tx_arg>>
       ELSE /\ tx_pc' = [tx_pc EXCEPT ![s] = "push"]
            /\ tx_value' = [tx_value EXCEPT ![s] = poll_send_arg(s)]
            /\ tx_arg' = [tx_arg EXCEPT ![s] = poll_send_arg(s)]
            /\ tx_res' = [tx_res EXCEPT ![s] = "running"]
            /\ tx_ret' = [tx_ret EXCEPT ![s] = NoItem]
            /\ UNCHANGED <<pending_sender_waker, tx_wakes>>
    /\ UNCHANGED <<capacity, handle, rx_wakes, queue, sender_count,
                   receiver_alive, pending_receiver_waker>>
    /\ UNCHANGED <<rx_vars, ghost_vars>>

\* poll_send_begin without the `is_closed()` test.
poll_send_begin_unchecked(s) ==
    /\ handle[s] = "alive"
    /\ tx_pc[s] = "idle"
    /\ poll_send_arg(s) \in Items
    /\ next_item' = IF tx_ret[s] # NoItem THEN next_item ELSE next_item + 1
    /\ tx_pc' = [tx_pc EXCEPT ![s] = "push"]
    /\ tx_value' = [tx_value EXCEPT ![s] = poll_send_arg(s)]
    /\ tx_arg' = [tx_arg EXCEPT ![s] = poll_send_arg(s)]
    /\ tx_res' = [tx_res EXCEPT ![s] = "running"]
    /\ tx_ret' = [tx_ret EXCEPT ![s] = NoItem]
    /\ UNCHANGED <<capacity, handle, tx_wakes, rx_wakes>>
    /\ UNCHANGED <<shared_vars, rx_vars, ghost_vars>>

poll_send_begin(s) ==
    /\ handle[s] = "alive"
    /\ tx_pc[s] = "idle"
    /\ poll_send_arg(s) \in Items
    /\ next_item' = IF tx_ret[s] # NoItem THEN next_item ELSE next_item + 1
    /\ IF sender_is_closed
       THEN /\ tx_res' = [tx_res EXCEPT ![s] = "Rejected"]
            /\ tx_ret' = [tx_ret EXCEPT ![s] = poll_send_arg(s)]
            /\ UNCHANGED <<tx_pc, tx_value, tx_arg>>
       ELSE /\ tx_pc' = [tx_pc EXCEPT ![s] = "push"]
            /\ tx_value' = [tx_value EXCEPT ![s] = poll_send_arg(s)]
            /\ tx_arg' = [tx_arg EXCEPT ![s] = poll_send_arg(s)]
            /\ tx_res' = [tx_res EXCEPT ![s] = "running"]
            /\ tx_ret' = [tx_ret EXCEPT ![s] = NoItem]
    /\ UNCHANGED <<capacity, handle, tx_wakes, rx_wakes>>
    /\ UNCHANGED <<shared_vars, rx_vars, ghost_vars>>

\* poll_send_push on a queue that takes one item more than its capacity.
poll_send_push_one_over(s) ==
    /\ tx_pc[s] = "push"
    /\ IF push_ok(queue, capacity + 1)
       THEN /\ queue' = push(queue, tx_value[s])
            /\ accepted' = Append(accepted, tx_value[s])
            /\ tx_value' = [tx_value EXCEPT ![s] = NoItem]
            /\ tx_pc' = [tx_pc EXCEPT ![s] = "Ok"]
       ELSE /\ tx_pc' = [tx_pc EXCEPT ![s] = "Err"]
            /\ UNCHANGED <<queue, accepted, tx_value>>
    /\ UNCHANGED <<capacity, sender_count, receiver_alive, pending_sender_waker,
                   pending_receiver_waker, handle, tx_arg, tx_res, tx_ret,
                   next_item, delivered, tx_wakes, rx_wakes>>
    /\ UNCHANGED rx_vars

\* poll_send_push on a queue that reports full one slot early.
poll_send_push_one_short(s) ==
    /\ tx_pc[s] = "push"
    /\ IF push_ok(queue, capacity - 1)
       THEN /\ queue' = push(queue, tx_value[s])
            /\ accepted' = Append(accepted, tx_value[s])
            /\ tx_value' = [tx_value EXCEPT ![s] = NoItem]
            /\ tx_pc' = [tx_pc EXCEPT ![s] = "Ok"]
       ELSE /\ tx_pc' = [tx_pc EXCEPT ![s] = "Err"]
            /\ UNCHANGED <<queue, accepted, tx_value>>
    /\ UNCHANGED <<capacity, sender_count, receiver_alive, pending_sender_waker,
                   pending_receiver_waker, handle, tx_arg, tx_res, tx_ret,
                   next_item, delivered, tx_wakes, rx_wakes>>
    /\ UNCHANGED rx_vars

\* poll_send_push with a push that overwrites the newest item of a full
\* queue before it reports Err.
poll_send_push_overwrite(s) ==
    /\ tx_pc[s] = "push"
    /\ IF push_ok(queue, capacity)
       THEN /\ queue' = push(queue, tx_value[s])
            /\ accepted' = Append(accepted, tx_value[s])
            /\ tx_value' = [tx_value EXCEPT ![s] = NoItem]
            /\ tx_pc' = [tx_pc EXCEPT ![s] = "Ok"]
       ELSE /\ queue' = [queue EXCEPT ![Len(queue)] = tx_value[s]]
            /\ tx_pc' = [tx_pc EXCEPT ![s] = "Err"]
            /\ UNCHANGED <<accepted, tx_value>>
    /\ UNCHANGED <<capacity, sender_count, receiver_alive, pending_sender_waker,
                   pending_receiver_waker, handle, tx_arg, tx_res, tx_ret,
                   next_item, delivered, tx_wakes, rx_wakes>>
    /\ UNCHANGED rx_vars

\* `match queue.push(value)`: the push takes effect, or fails and gives the
\* value back as `v`.
poll_send_push(s) ==
    /\ tx_pc[s] = "push"
    /\ IF push_ok(queue, capacity)
       THEN /\ queue' = push(queue, tx_value[s])
            /\ accepted' = Append(accepted, tx_value[s])
            /\ tx_value' = [tx_value EXCEPT ![s] = NoItem]
            /\ tx_pc' = [tx_pc EXCEPT ![s] = "Ok"]
       ELSE /\ tx_pc' = [tx_pc EXCEPT ![s] = "Err"]
            /\ UNCHANGED <<queue, accepted, tx_value>>
    /\ UNCHANGED <<capacity, sender_count, receiver_alive, pending_sender_waker,
                   pending_receiver_waker, handle, tx_arg, tx_res, tx_ret,
                   next_item, delivered, tx_wakes, rx_wakes>>
    /\ UNCHANGED rx_vars

\* poll_send_Ok without the call of notify_receivers.
poll_send_Ok_no_notify(s) ==
    /\ tx_pc[s] = "Ok"
    /\ tx_res' = [tx_res EXCEPT ![s] = "Ready"]
    /\ tx_arg' = [tx_arg EXCEPT ![s] = NoItem]
    /\ tx_pc' = [tx_pc EXCEPT ![s] = "idle"]
    /\ UNCHANGED <<capacity, queue, sender_count, receiver_alive,
                   pending_sender_waker, pending_receiver_waker, handle,
                   tx_value, tx_ret, next_item, tx_wakes, rx_wakes>>
    /\ UNCHANGED <<rx_vars, ghost_vars>>

\* `Ok(_) => { self.shared.notify_receivers(); PollSend::Ready }`
poll_send_Ok(s) ==
    /\ tx_pc[s] = "Ok"
    /\ notify_receivers
    /\ tx_res' = [tx_res EXCEPT ![s] = "Ready"]
    /\ tx_arg' = [tx_arg EXCEPT ![s] = NoItem]
    /\ tx_pc' = [tx_pc EXCEPT ![s] = "idle"]
    /\ UNCHANGED <<capacity, queue, sender_count, receiver_alive,
                   pending_sender_waker, handle, tx_value, tx_ret,
                   next_item, tx_wakes>>
    /\ UNCHANGED <<rx_vars, ghost_vars>>

\* poll_send_Err that registers its wake handle only in an empty slot: the
\* handle registered first is kept.
poll_send_Err_keep_first(s) ==
    /\ tx_pc[s] = "Err"
    /\ IF pending_sender_waker = NoWaker
       THEN subscribe_recv(s)
       ELSE UNCHANGED <<pending_sender_waker, tx_wakes>>
    /\ tx_res' = [tx_res EXCEPT ![s] = "Pending"]
    /\ tx_ret' = [tx_ret EXCEPT ![s] = tx_value[s]]
    /\ tx_value' = [tx_value EXCEPT ![s] = NoItem]
    /\ tx_arg' = [tx_arg EXCEPT ![s] = NoItem]
    /\ tx_pc' = [tx_pc EXCEPT ![s] = "idle"]
    /\ UNCHANGED <<capacity, queue, sender_count, receiver_alive,
                   pending_receiver_waker, handle, next_item, rx_wakes>>
    /\ UNCHANGED <<rx_vars, ghost_vars>>

\* poll_send_Err with the item dropped instead of handed back in Pending.
poll_send_Err_drops_item(s) ==
    /\ tx_pc[s] = "Err"
    /\ subscribe_recv(s)
    /\ tx_res' = [tx_res EXCEPT ![s] = "Pending"]
    /\ tx_value' = [tx_value EXCEPT ![s] = NoItem]
    /\ tx_arg' = [tx_arg EXCEPT ![s] = NoItem]
    /\ tx_pc' = [tx_pc EXCEPT ![s] = "idle"]
    /\ UNCHANGED <<capacity, queue, sender_count, receiver_alive,
                   pending_receiver_waker, handle, next_item, rx_wakes, tx_ret>>
    /\ UNCHANGED <<rx_vars, ghost_vars>>

\* `Err(v) => { self.shared.subscribe_recv(cx.waker().clone()); PollSend::Pending(v) }`
poll_send_Err(s) ==
    /\ tx_pc[s] = "Err"
    /\ subscribe_recv(s)
    /\ tx_res' = [tx_res EXCEPT ![s] = "Pending"]
    /\ tx_ret' = [tx_ret EXCEPT ![s] = tx_value[s]]
    /\ tx_value' = [tx_value EXCEPT ![s] = NoItem]
    /\ tx_arg' = [tx_arg EXCEPT ![s] = NoItem]
    /\ tx_pc' = [tx_pc EXCEPT ![s] = "idle"]
    /\ UNCHANGED <<capacity, queue, sender_count, receiver_alive,
                   pending_receiver_waker, handle, next_item, rx_wakes>>
    /\ UNCHANGED <<rx_vars, ghost_vars>>

\* ------------------------------------------------ Receiver::poll_recv
\* poll_recv_pop taking the newest item of the queue instead of the oldest.
poll_recv_pop_newest ==
    /\ receiver_alive
    /\ rx_pc = "idle"
    /\ rx_res' = "running"
    /\ IF pop_some(queue)
       THEN /\ rx_value' = queue[Len(queue)]
            /\ queue' = SubSeq(queue, 1, Len(queue) - 1)
            /\ rx_pc' = "Some"
       ELSE /\ rx_pc' = "None"
            /\ UNCHANGED <<queue, rx_value>>
    /\ UNCHANGED <<capacity, sender_count, receiver_alive, pending_sender_waker,
                   pending_receiver_waker, handle, next_item,
                   tx_wakes, rx_wakes>>
    /\ UNCHANGED <<tx_vars, ghost_vars>>

\* The call and its first statement: `match self.shared.extension().queue.pop()`.
poll_recv_pop ==
    /\ receiver_alive
    /\ rx_pc = "idle"
    /\ rx_res' = "running"
    /\ IF pop_some(queue)
       THEN /\ rx_value' = Head(queue)
            /\ queue' = Tail(queue)
            /\ rx_pc' = "Some"
       ELSE /\ rx_pc' = "None"
            /\ UNCHANGED <<queue, rx_value>>
    /\ UNCHANGED <<capacity, sender_count, receiver_alive, pending_sender_waker,
                   pending_receiver_waker, handle, next_item,
                   tx_wakes, rx_wakes>>
    /\ UNCHANGED <<tx_vars, ghost_vars>>

\* poll_recv_Some without the call of notify_senders.
poll_recv_Some_no_notify ==
    /\ rx_pc = "Some"
    /\ rx_res' = "Ready"
    /\ delivered' = Append(delivered, rx_value)
    /\ rx_value' = NoItem
    /\ rx_pc' = "idle"
    /\ UNCHANGED <<capacity, queue, sender_count, receiver_alive,
                   pending_sender_waker, pending_receiver_waker, handle,
                   next_item, accepted, tx_wakes, rx_wakes>>
    /\ UNCHANGED tx_vars

\* `Some(v) => { self.shared.notify_senders(); PollRecv::Ready(v) }`
poll_recv_Some ==
    /\ rx_pc = "Some"
    /\ notify_senders
    /\ rx_res' = "Ready"
    /\ delivered' = Append(delivered, rx_value)
    /\ rx_value' = NoItem
    /\ rx_pc' = "idle"
    /\ UNCHANGED <<capacity, queue, sender_count, receiver_alive,
                   pending_receiver_waker, handle, next_item,
                   accepted, rx_wakes>>
    /\ UNCHANGED tx_vars

\* poll_recv_None without the `is_closed()` test.
poll_recv_None_never_closed ==
    /\ rx_pc = "None"
    /\ rx_pc' = "subscribe"
    /\ UNCHANGED <<capacity, handle, next_item, tx_wakes, rx_wakes,
                   rx_value, rx_res>>
    /\ UNCHANGED <<shared_vars, tx_vars, ghost_vars>>

\* `None => { if self.shared.is_closed() { return PollRecv::Closed; } ...`
poll_recv_None ==
    /\ rx_pc = "None"
    /\ IF receiver_is_closed
       THEN /\ rx_res' = "Closed"
            /\ rx_pc' = "idle"
       ELSE /\ rx_pc' = "subscribe"
            /\ UNCHANGED rx_res
    /\ UNCHANGED <<capacity, handle, next_item, tx_wakes, rx_wakes,
                   rx_value>>
    /\ UNCHANGED <<shared_vars, tx_vars, ghost_vars>>

\* poll_recv_subscribe registering the consumer's wake handle in the
\* producers' slot.
poll_recv_subscribe_wrong_slot ==
    /\ rx_pc = "subscribe"
    /\ subscribe_recv(RxWaker)
    /\ rx_res' = "Pending"
    /\ rx_pc' = "idle"
    /\ UNCHANGED <<capacity, queue, sender_count, receiver_alive,
                   pending_receiver_waker, handle, next_item,
                   rx_wakes, rx_value>>
    /\ UNCHANGED <<tx_vars, ghost_vars>>

\* `self.shared.subscribe_send(cx.waker().clone()); PollRecv::Pending`
poll_recv_subscribe ==
    /\ rx_pc = "subscribe"
    /\ subscribe_send(RxWaker)
    /\ rx_res' = "Pending"
    /\ rx_pc' = "idle"
    /\ UNCHANGED <<capacity, queue, sender_count, receiver_alive,
                   pending_sender_waker, handle, next_item,
                   tx_wakes, rx_value>>
    /\ UNCHANGED <<tx_vars, ghost_vars>>

\* --------------------------------------------------------------- Next
Next ==
    \/ \E s \in Senders : clone(s)
    \/ \E s \in Senders : drop_sender(s)
    \/ drop_receiver
    \/ \E s \in Senders : poll_send_begin(s)
    \/ \E s \in Senders : poll_send_push(s)
    \/ \E s \in Senders : poll_send_Ok(s)
    \/ \E s \in Senders : poll_send_Err(s)
    \/ poll_recv_pop
    \/ poll_recv_Some
    \/ poll_recv_None
    \/ poll_recv_subscribe

Spec == Init /\ [][Next]_vars

TypeOK ==
    /\ capacity \in 0..MaxCapacity
    /\ Len(queue) <= capacity
    /\ sender_count \in 0..MaxSenders
    /\ receiver_alive \in BOOLEAN
    /\ pending_sender_waker \in {NoWaker} \cup Senders
    /\ pending_receiver_waker \in {NoWaker, RxWaker}
\* ============================================================ claims
\* The number of places of each kind that hold item i.
InBuffer(i) == Cardinality({k \in 1..Len(queue) : queue[k] = i})
InSendCall(i) == Cardinality({s \in Senders : tx_value[s] = i})
HandedBack(i) == Cardinality({s \in Senders : tx_ret[s] = i})
InRecvCall(i) == IF rx_value = i THEN 1 ELSE 0
Delivered(i) == Cardinality({k \in 1..Len(delivered) : delivered[k] = i})
Accepted(i) == Cardinality({k \in 1..Len(accepted) : accepted[k] = i})
Places(i) == InBuffer(i) + InSendCall(i) + HandedBack(i) + InRecvCall(i) + Delivered(i)

\* C1: item conservation.  Every item ever passed to poll_send is in exactly
\* one place: owned by a running poll_send, handed back to its caller in
\* Pending(item) or Rejected(item), held once in the buffer (where it stays
\* when the Receiver is dropped), or popped and delivered once by poll_recv.
\* No item is delivered twice, none is delivered that was not accepted by a
\* push, and an item is handed back only by a Pending or Rejected result.
C1_ItemConservation ==
    /\ \A i \in Items : Places(i) = (IF i < next_item THEN 1 ELSE 0)
    /\ \A i \in Items : Delivered(i) <= 1 /\ Delivered(i) + InRecvCall(i) + InBuffer(i) = Accepted(i)
    /\ \A s \in Senders : tx_ret[s] # NoItem => tx_res[s] \in {"Pending", "Rejected"}

\* All items exist; one was delivered, one is buffered and one was handed
\* back in Pending.
C1_Witness ==
    /\ next_item > MaxItems
    /\ delivered # <<>>
    /\ queue # <<>>
    /\ \E s \in Senders : tx_res[s] = "Pending" /\ tx_ret[s] # NoItem

\* C2: FIFO delivery.  The sequence of items poll_recv has returned is a
\* prefix of the sequence of accepted items in the order their pushes took
\* effect.
C2_FifoPrefix ==
    /\ Len(delivered) <= Len(accepted)
    /\ delivered = SubSeq(accepted, 1, Len(delivered))

\* Two items were delivered, and the pushes took effect in another order than
\* the items were created (two Senders interleaved).
C2_Witness ==
    /\ Len(delivered) >= 2
    /\ delivered[1] > delivered[2]
\* C3: a poll_send that finds the Receiver alive goes on to the push; a push
\* that finds fewer than capacity items appends the item passed in at the
\* tail of the buffer, and the call then returns Ready.  As long as nothing
\* was popped, the buffer holds exactly the accepted items in push order.
C3_AcceptedWhenRoom ==
    [][/\ \A s \in Senders :
           /\ (poll_send_begin(s) /\ receiver_alive)
                  => (tx_pc'[s] = "push" /\ tx_value'[s] = poll_send_arg(s))
           /\ (poll_send_push(s) /\ Len(queue) < capacity)
                  => (queue' = Append(queue, tx_arg[s]) /\ tx_pc'[s] = "Ok")
           /\ poll_send_Ok(s)
                  => (tx_res'[s] = "Ready" /\ tx_ret'[s] = NoItem /\ queue' = queue)
       /\ (delivered' = <<>> /\ rx_value' = NoItem) => queue' = accepted'
      ]_vars

\* The only Sender filled the buffer, got Pending for item 2 and was woken by
\* the pop of item 1; its retry of item 2 was accepted.
C3_Witness ==
    /\ handle[2] = "unborn"
    /\ tx_res[1] = "Ready"
    /\ tx_wakes[1] = 1
    /\ accepted = <<1, 2>>
    /\ delivered = <<1>>
    /\ queue = <<2>>

\* C4: backpressure.  A push that finds the buffer holding capacity items
\* leaves the buffer as it is and keeps the item; the call then returns
\* Pending carrying the very item that was passed in, the buffer unchanged.
C4_Backpressure ==
    [][\A s \in Senders :
           /\ (poll_send_push(s) /\ Len(queue) = capacity)
                  => (queue' = queue /\ tx_pc'[s] = "Err" /\ tx_value'[s] = tx_arg[s])
           /\ poll_send_Err(s)
                  => (tx_res'[s] = "Pending" /\ tx_ret'[s] = tx_arg[s] /\ queue' = queue)
      ]_vars

\* A Sender got Pending with its item while the Receiver is alive and the
\* buffer is full.
C4_Witness ==
    /\ receiver_alive
    /\ Len(queue) = capacity
    /\ \E s \in Senders : tx_res[s] = "Pending" /\ tx_ret[s] \in Items

\* C5: poll_recv returns Closed only when sender_count is 0 and the buffer is
\* empty, so that every accepted item was delivered before Closed.
C5_ClosedOnlyWhenDrained ==
    rx_res = "Closed" => (sender_count = 0 /\ queue = <<>> /\ delivered = accepted)

\* C6: once the Receiver is dropped it stays dropped, and every poll_send
\* called from then on returns Rejected with the item passed in, whatever the
\* buffer holds, and leaves the buffer and both wake slots alone.
C6_RejectedAfterReceiverDrop ==
    [][/\ ~receiver_alive => ~receiver_alive'
       /\ \A s \in Senders :
           (poll_send_begin(s) /\ ~receiver_alive)
              => /\ tx_res'[s] = "Rejected"
                 /\ tx_ret'[s] = poll_send_arg(s)
                 /\ tx_pc'[s] = "idle"
                 /\ queue' = queue
      ]_vars

\* The original Sender and its clone were both rejected, with items still in
\* the buffer.
C6_Witness ==
    /\ ~receiver_alive
    /\ queue # <<>>
    /\ \A s \in Senders : handle[s] = "alive" /\ tx_res[s] = "Rejected" /\ tx_ret[s] \in Items
\* Sender s is the only Sender there has ever been.
OnlySender(s) == \A t \in Senders \ {s} : handle[t] = "unborn"

\* C7: no lost wake-up for a blocked producer.  With one producer and the
\* Receiver alive, there is no state in which the producer has returned
\* Pending, the buffer has free space, and the producer's wake handle was
\* neither invoked since it was registered nor is about to be (a poll_recv
\* that popped an item and has not yet notified, with the handle registered).
C7_NoLostProducerWake ==
    \A s \in Senders :
        (/\ OnlySender(s)
         /\ tx_pc[s] = "idle"
         /\ tx_res[s] = "Pending"
         /\ receiver_alive
         /\ Len(queue) < capacity)
        => \/ tx_wakes[s] > 0
           \/ (rx_pc = "Some" /\ pending_sender_waker = s)

\* C8: no lost wake-up for the blocked consumer.  There is no state in which
\* the consumer has returned Pending, the buffer is non-empty or
\* sender_count is 0, and the consumer's wake handle was neither invoked
\* since it was registered nor is about to be (a poll_send that pushed and
\* has not yet notified, with the handle registered).
C8_NoLostConsumerWake ==
    (/\ rx_pc = "idle"
     /\ rx_res = "Pending"
     /\ receiver_alive
     /\ (queue # <<>> \/ sender_count = 0))
    => \/ rx_wakes > 0
       \/ (pending_receiver_waker = RxWaker /\ \E s \in Senders : tx_pc[s] = "Ok")

\* C9 as stated: whenever poll_recv returns Ready, every producer that
\* returned Pending and whose wake handle was not invoked yet has its handle
\* invoked once by that poll_recv.
C9_EveryPendingProducerWoken ==
    [][poll_recv_Some =>
          \A s \in Senders :
              (tx_pc[s] = "idle" /\ tx_res[s] = "Pending" /\ tx_wakes[s] = 0)
                  => tx_wakes'[s] = 1
      ]_vars

\* C9, amended: a poll_recv that returns Ready invokes once the wake handle
\* held by the producer wake slot, which is the handle of the producer that
\* got Pending last, invokes no other handle and clears the slot; the other
\* steps of poll_recv (the pop, the Closed and the Pending path) invoke no
\* producer handle and leave the slot alone; no registered handle is invoked
\* more than once.
C9_ProducerWakeExactlyOnce ==
    [][/\ poll_recv_Some =>
            /\ pending_sender_waker' = NoWaker
            /\ \A s \in Senders :
                  tx_wakes'[s] = IF pending_sender_waker = s
                                 THEN tx_wakes[s] + 1 ELSE tx_wakes[s]
            /\ \A s \in Senders :
                  (tx_pc[s] = "idle" /\ tx_res[s] = "Pending" /\ tx_wakes[s] = 0
                   /\ pending_sender_waker = s) => tx_wakes'[s] = 1
       /\ (poll_recv_pop \/ poll_recv_None \/ poll_recv_subscribe) =>
            /\ pending_sender_waker' = pending_sender_waker
            /\ tx_wakes' = tx_wakes
       /\ \A s \in Senders : tx_wakes'[s] <= 1
      ]_vars

\* A producer that got Pending was woken once by a poll_recv that returned
\* Ready, and a later poll_recv returned Pending without waking it again.
C9_Witness ==
    /\ rx_pc = "idle"
    /\ rx_res = "Pending"
    /\ delivered # <<>>
    /\ pending_sender_waker = NoWaker
    /\ \E s \in Senders : tx_pc[s] = "idle" /\ tx_res[s] = "Pending" /\ tx_wakes[s] = 1

\* C10: a poll_send that returns Ready invokes the consumer's wake handle
\* once if it is registered, clears the consumer wake slot and invokes no
\* producer handle; with no handle registered it wakes nobody; a consumer
\* that returned Pending and was not woken yet is woken by the next poll_send
\* that returns Ready; the handle is never invoked more than once per
\* registration.
C10_ConsumerWakeExactlyOnce ==
    [][/\ \A s \in Senders :
            poll_send_Ok(s) =>
               /\ pending_receiver_waker' = NoWaker
               /\ rx_wakes' = IF pending_receiver_waker = RxWaker
                               THEN rx_wakes + 1 ELSE rx_wakes
               /\ tx_wakes' = tx_wakes
               /\ (rx_pc = "idle" /\ rx_res = "Pending" /\ rx_wakes = 0)
                     => rx_wakes' = 1
       /\ rx_wakes' <= 1
      ]_vars

\* The consumer got Pending, was woken once by a send that returned Ready,
\* and a second send returned Ready without waking it again.
C10_Witness ==
    /\ rx_pc = "idle"
    /\ rx_res = "Pending"
    /\ rx_wakes = 1
    /\ pending_receiver_waker = NoWaker
    /\ Len(queue) = 2
    /\ \A s \in Senders : handle[s] # "unborn" => (tx_pc[s] = "idle" /\ tx_res[s] = "Ready")
LiveSenders == {s \in Senders : handle[s] = "alive"}

\* C12: clones count as independent producers.  sender_count is the number
\* of live Sender handles, the original and its clones alike, and poll_recv
\* has returned Closed only if no Sender handle is alive: as long as one is,
\* the empty path returns Pending.
C12_ClonesCounted ==
    /\ sender_count = Cardinality(LiveSenders)
    /\ rx_res = "Closed" => LiveSenders = {}

\* The original Sender was dropped without sending; its clone is alive, its
\* send was accepted and woke the consumer, which is Pending, not Closed.
C12_Witness ==
    /\ handle[1] = "dropped"
    /\ tx_res[1] = "none"
    /\ handle[2] = "alive"
    /\ tx_res[2] = "Ready"
    /\ sender_count = 1
    /\ rx_pc = "idle"
    /\ rx_res = "Pending"
    /\ rx_wakes = 1
\* C13: Closed is terminal for the consumer.  A poll_recv called after a
\* poll_recv returned Closed finds no Sender and no item in the buffer, so
\* that its pop fails and it returns Closed again, never Ready or Pending.
C13_ClosedIsTerminal ==
    [][(rx_res = "Closed" /\ poll_recv_pop)
          => (sender_count = 0 /\ queue = <<>> /\ rx_pc' = "None")
      ]_vars
\* C14: the liveness counters are monotonic.  A channel starts with
\* sender_count 1 and receiver_alive true; sender_count is never negative
\* and moves by one at a time, by a clone or a Sender drop only; once it is 0
\* it stays 0; receiver_alive changes only by the Receiver's drop, to false,
\* and never returns to true.
C14_LivenessMonotonic ==
    /\ capacity >= 1 => (sender_count = 1 /\ receiver_alive)
    /\ [][/\ sender_count' >= 0
          /\ sender_count = 0 => sender_count' = 0
          /\ sender_count' > sender_count
                => (sender_count' = sender_count + 1 /\ \E s \in LiveSenders : clone(s))
          /\ sender_count' < sender_count
                => (sender_count' = sender_count - 1 /\ \E s \in LiveSenders : drop_sender(s))
          /\ ~receiver_alive => ~receiver_alive'
          /\ receiver_alive' # receiver_alive => drop_receiver
         ]_vars

\* Both directions have shut down: every Sender that ever existed was
\* dropped, the clone included, and so was the Receiver.
C14_Witness ==
    /\ sender_count = 0
    /\ \A s \in Senders : handle[s] = "dropped"
    /\ ~receiver_alive
    /\ capacity >= 1

\* C15: capacity bound.  The buffer never holds more than capacity items,
\* whatever the number of Senders pushing concurrently, and the capacity
\* given to channel() never changes.
C15_CapacityBound ==
    /\ Len(queue) <= capacity
    /\ [][capacity' = capacity /\ Len(queue') <= capacity']_vars

\* The buffer is full and every Sender, the original and the clone, has just
\* failed a push.
C15_Witness ==
    /\ Len(queue) = capacity
    /\ \A s \in Senders : tx_pc[s] = "Err"

\* C16: single-slot overwrite of the producer wake handle.  A poll_send that
\* returns Pending leaves its own wake handle in the producer wake slot,
\* whatever the slot held; when a poll_recv returns Ready while the slot
\* holds the handle of another producer, a producer that returned Pending
\* earlier and was not woken yet is not woken by it: only the handle in the
\* slot is invoked.
C16_SingleSlotOverwrite ==
    [][/\ \A s \in Senders : poll_send_Err(s) => pending_sender_waker' = s
       /\ poll_recv_Some =>
             \A s \in Senders :
                 (/\ tx_pc[s] = "idle"
                  /\ tx_res[s] = "Pending"
                  /\ tx_wakes[s] = 0
                  /\ pending_sender_waker \in Senders \ {s})
                 => /\ tx_wakes'[s] = 0
                    /\ tx_wakes'[pending_sender_waker] = tx_wakes[pending_sender_waker] + 1
      ]_vars

\* Both producers returned Pending on the full channel, Sender 1 first; the
\* pop woke Sender 2 only, and Sender 1 stays unwoken although the buffer
\* has free space.
C16_Witness ==
    /\ receiver_alive
    /\ rx_pc = "idle"
    /\ rx_res = "Ready"
    /\ Len(queue) < capacity
    /\ pending_sender_waker = NoWaker
    /\ \A s \in Senders : tx_pc[s] = "idle" /\ tx_res[s] = "Pending"
    /\ tx_wakes[1] = 0
    /\ tx_wakes[2] = 1

\* What the empty path of poll_recv leaves alone: the buffer, sender_count,
\* receiver_alive, the producer wake slot and the producers' wake handles.
EmptyPathFrame ==
    /\ queue' = queue
    /\ sender_count' = sender_count
    /\ receiver_alive' = receiver_alive
    /\ pending_sender_waker' = pending_sender_waker
    /\ tx_wakes' = tx_wakes

\* C17: a poll_recv on an empty buffer while a Sender is alive fails its pop,
\* passes the is_closed() test, stores the caller's wake handle in the
\* consumer wake slot and returns Pending; none of its steps changes the
\* buffer, sender_count or receiver_alive, or invokes or clears a producer
\* wake handle.
C17_PendingRecvFrame ==
    [][/\ (poll_recv_pop /\ queue = <<>>)
             => /\ rx_pc' = "None"
                /\ pending_receiver_waker' = pending_receiver_waker
                /\ EmptyPathFrame
       /\ (poll_recv_None /\ sender_count > 0)
             => /\ rx_pc' = "subscribe"
                /\ pending_receiver_waker' = pending_receiver_waker
                /\ EmptyPathFrame
       /\ poll_recv_subscribe
             => /\ rx_res' = "Pending"
                /\ rx_pc' = "idle"
                /\ pending_receiver_waker' = RxWaker
                /\ EmptyPathFrame
      ]_vars

\* The consumer returned Pending on an empty buffer with a Sender alive; a
\* producer wake handle is still registered and was not invoked.
C17_Witness ==
    /\ rx_pc = "idle"
    /\ rx_res = "Pending"
    /\ pending_receiver_waker = RxWaker
    /\ rx_wakes = 0
    /\ queue = <<>>
    /\ sender_count > 0
    /\ receiver_alive
    /\ \E s \in Senders : pending_sender_waker = s /\ tx_wakes[s] = 0

\* C18: channel(0) is rejected at construction.  It yields no Sender and no
\* Receiver, so that no send and no receive is ever attempted, and nothing is
\* ever buffered, with a capacity of zero.
C18_ZeroCapacityRejected ==
    /\ capacity = 0 =>
          /\ \A s \in Senders : handle[s] = "unborn"
          /\ ~receiver_alive
          /\ sender_count = 0
    /\ (\/ \E s \in Senders : tx_pc[s] # "idle" \/ tx_res[s] # "none"
        \/ rx_pc # "idle"
        \/ rx_res # "none"
        \/ queue # <<>>) => capacity >= 1

\* channel(0) was called.
C18_Witness == capacity = 0 /\ queue = <<>> /\ next_item = 1
\* C19: no item enters the buffer after the Receiver is gone.  A push made
\* while receiver_alive is false does not take effect, and its poll_send
\* does not go on to return Ready.
C19_NoPushAfterReceiverDrop ==
    [][\A s \in Senders :
           (poll_send_push(s) /\ ~receiver_alive)
              => (queue' = queue /\ tx_pc'[s] # "Ok")
      ]_vars

\* C20: a rejected send has no channel-side effect.  The poll_send that
\* returns Rejected leaves the buffer, sender_count, receiver_alive and both
\* wake slots unchanged, invokes no wake handle and does not register the
\* caller's wake handle.
C20_RejectedSendFrame ==
    [][\A s \in Senders :
           (poll_send_begin(s) /\ tx_pc'[s] = "idle")
              => /\ tx_res'[s] = "Rejected"
                 /\ queue' = queue
                 /\ sender_count' = sender_count
                 /\ receiver_alive' = receiver_alive
                 /\ pending_sender_waker' = pending_sender_waker
                 /\ pending_receiver_waker' = pending_receiver_waker
                 /\ tx_wakes' = tx_wakes
                 /\ rx_wakes' = rx_wakes
                 /\ accepted' = accepted
      ]_vars

\* A Sender was rejected while the buffer holds an item and the producer
\* wake slot holds the handle of the other Sender, registered and not woken.
C20_Witness ==
    /\ ~receiver_alive
    /\ queue # <<>>
    /\ \E s \in Senders : \E u \in Senders \ {s} :
          /\ tx_pc[s] = "idle"
          /\ tx_res[s] = "Rejected"
          /\ pending_sender_waker = u
          /\ tx_wakes[u] = 0
====
